---- MODULE Spec2Model ----
(***************************************************************************)
(* Model of greeter_async_server.cc: the CallData state machines           *)
(* (CallDataBase, HelloCallData, ByeCallData), the HandleRpcs dispatch     *)
(* loop run by one or more threads on one completion queue, and            *)
(* ~ServerImpl.  The gRPC runtime is modelled by what the calls made in    *)
(* the source ask of it: RequestSayHello/RequestSayGoodbye register an     *)
(* acceptor whose tag is posted when a call is matched, Finish posts the   *)
(* tag once the response is handed over, Server::Shutdown cancels the      *)
(* registered acceptors (ok = false) and blocks until the calls in flight  *)
(* are finished, CompletionQueue::Shutdown makes Next return false once    *)
(* the queue is drained.                                                   *)
(*                                                                         *)
(* One action per statement of Proceed/Process/HandleRpcs, so that         *)
(* interleavings of dispatcher threads inside a handler are explored.      *)
(* Addresses are opaque: `new` returns either the lowest never-used        *)
(* address or any address freed before (reuse).  Instances of the two      *)
(* classes are numbered in separate address ranges; an instance is         *)
(* identified by its address and the number of constructions there.        *)
(***************************************************************************)
EXTENDS Integers, Sequences, FiniteSets, TLC

\* ---- bounds ----
NumThreads == 2
MaxCalls == 1

Threads == 1..NumThreads
\* Every thread primes one instance per method (lines 160-161) and every
\* accepted call spawns one more of its method (lines 86, 111).
MaxPerMethod == NumThreads + MaxCalls
Addr == 1..(2 * MaxPerMethod)
Methods == {"Hello", "Bye"}
Names == {"World", "Bob"}

VARIABLES
  heap,            \* Addr -> CallData object (type "free" when not allocated)
  gen,             \* history: number of instances constructed at an address
  reg,             \* runtime: acceptors registered by RequestSayHello/Goodbye
  pending,         \* runtime: Finish operations issued, tag not yet posted
  inflight,        \* runtime: calls matched to an acceptor, not yet finished
  cq,              \* cq_: events posted and not yet returned by Next
  serverShutdown,  \* server_->Shutdown() has begun
  cqShutdown,      \* cq_->Shutdown() was called
  stopPc,          \* position of ~ServerImpl
  pc,              \* position of each thread in HandleRpcs
  tag, ok, nextRet,\* locals of HandleRpcs: tag, ok, result of Next
  cur,             \* history: the instance and operation the obtained event is of
  proc,            \* "running", "aborted" (GPR_ASSERT) or "undefined" (UB)
  calls,           \* number of client calls matched so far
  adv,             \* history: event and status_ of each Proceed of the
                   \* instance last constructed at an address
  relCount         \* history: number of times that instance was deleted

vars == <<heap, gen, reg, pending, inflight, cq, serverShutdown,
          cqShutdown, stopPc, pc, tag, ok, nextRet, cur, proc, calls, adv,
          relCount>>

rt == <<reg, pending, inflight, cq, serverShutdown, cqShutdown>>
locals == <<tag, ok, nextRet, cur>>
hist == <<adv, relCount>>

\* ---- CallData objects ----
NoResponder == [finished |-> FALSE, msg |-> "", status |-> "NONE"]

Free == [type |-> "free", status_ |-> "NONE", request_ |-> "", reply_ |-> "",
         responder_ |-> NoResponder, id |-> 0]

\* CallDataBase(service, cq): status_(PROCESS); buffers default-constructed.
CallDataBase(m, i) ==
  [type |-> m, status_ |-> "PROCESS", request_ |-> "", reply_ |-> "",
   responder_ |-> NoResponder, id |-> i]

Live(a) == heap[a].type # "free"

\* The addresses instances of class m are placed at.
Arena(m) ==
  IF m = "Hello" THEN 1..MaxPerMethod
                 ELSE (MaxPerMethod + 1)..(2 * MaxPerMethod)

\* Addresses operator new may return: the next fresh one, or a freed one.
NewAddrs(m) ==
  {a \in Arena(m) :
     /\ ~Live(a)
     /\ gen[a] = 0 => \A b \in Arena(m) : b < a => gen[b] > 0}

NoEvent == [id |-> 0, kind |-> "none"]

Event(a, b, i, k) == [tag |-> a, ok |-> b, id |-> i, kind |-> k]

\* new HelloCallData / new ByeCallData at address a: the constructor sets
\* status_ = PROCESS and requests a call with tag = this.  A request made of a
\* server that is shutting down completes at once with ok = false.
Construct(m, a) ==
  /\ a \in NewAddrs(m)
  /\ gen[a] < MaxPerMethod
  /\ heap' = [heap EXCEPT ![a] = CallDataBase(m, gen[a] + 1)]
  /\ gen' = [gen EXCEPT ![a] = @ + 1]
  /\ adv' = [adv EXCEPT ![a] = <<>>]
  /\ relCount' = [relCount EXCEPT ![a] = 0]
  /\ IF serverShutdown
       THEN /\ cq' = cq \cup {Event(a, FALSE, gen[a] + 1, "PROCESS")}
            /\ reg' = reg
       ELSE /\ reg' = reg \cup {[tag |-> a, method |-> m, id |-> gen[a] + 1]}
            /\ cq' = cq

Running == proc = "running"

Init ==
  /\ heap = [a \in Addr |-> Free]
  /\ gen = [a \in Addr |-> 0]
  /\ reg = {}
  /\ pending = {}
  /\ inflight = {}
  /\ cq = {}
  /\ serverShutdown = FALSE
  /\ cqShutdown = FALSE
  /\ stopPc = "idle"
  /\ pc = [t \in Threads |-> "new_hello"]
  /\ tag = [t \in Threads |-> 0]
  /\ ok = [t \in Threads |-> FALSE]
  /\ nextRet = [t \in Threads |-> "none"]
  /\ cur = [t \in Threads |-> NoEvent]
  /\ proc = "running"
  /\ calls = 0
  /\ adv = [a \in Addr |-> <<>>]
  /\ relCount = [a \in Addr |-> 0]

\* ---- HandleRpcs ----
\* line 160: new HelloCallData(&service_, cq_.get());
HandleRpcs_NewHello(t) ==
  /\ Running /\ pc[t] = "new_hello"
  /\ \E a \in Addr : Construct("Hello", a)
  /\ pc' = [pc EXCEPT ![t] = "new_bye"]
  /\ UNCHANGED <<pending, inflight, serverShutdown, cqShutdown, stopPc,
                 locals, proc, calls>>

\* line 161: new ByeCallData(&service_, cq_.get());
HandleRpcs_NewBye(t) ==
  /\ Running /\ pc[t] = "new_bye"
  /\ \E a \in Addr : Construct("Bye", a)
  /\ pc' = [pc EXCEPT ![t] = "next"]
  /\ UNCHANGED <<pending, inflight, serverShutdown, cqShutdown, stopPc,
                 locals, proc, calls>>

\* An access through tag[t] finds the instance the event was issued for.
Valid(t) == tag[t] \in Addr /\ heap[tag[t]].id = cur[t].id

\* Dereferencing the tag of a released instance is undefined behaviour: the
\* run is marked and not continued.
UseAfterRelease(t) ==
  /\ ~Valid(t)
  /\ proc' = "undefined"
  /\ UNCHANGED <<heap, gen, rt, stopPc, pc, locals, calls, hist>>

\* Variant of HandleRpcs_Next: the event obtained stays in the queue, so it is
\* delivered again.
HandleRpcs_NextKeepsEvent(t) ==
  /\ Running /\ pc[t] = "next"
  /\ \E e \in cq :
       /\ e.ok
       /\ tag' = [tag EXCEPT ![t] = e.tag]
       /\ ok' = [ok EXCEPT ![t] = e.ok]
       /\ cur' = [cur EXCEPT ![t] = [id |-> e.id, kind |-> e.kind]]
       /\ nextRet' = [nextRet EXCEPT ![t] = "event"]
       /\ pc' = [pc EXCEPT ![t] = "proceed"]
  /\ UNCHANGED <<heap, gen, rt, stopPc, proc, calls, hist>>

\* Variant of HandleRpcs_Next: line 171 (GPR_ASSERT(ok)) is missing, so an
\* event with ok = false is dispatched like any other.
HandleRpcs_NextIgnoresOk(t) ==
  /\ Running /\ pc[t] = "next"
  /\ \/ \E e \in cq :
          /\ cq' = cq \ {e}
          /\ tag' = [tag EXCEPT ![t] = e.tag]
          /\ ok' = [ok EXCEPT ![t] = e.ok]
          /\ cur' = [cur EXCEPT ![t] = [id |-> e.id, kind |-> e.kind]]
          /\ nextRet' = [nextRet EXCEPT ![t] = "event"]
          /\ pc' = [pc EXCEPT ![t] = "proceed"]
          /\ proc' = proc
     \/ /\ cqShutdown /\ cq = {}
        /\ nextRet' = [nextRet EXCEPT ![t] = "shutdown"]
        /\ pc' = [pc EXCEPT ![t] = "assert_next"]
        /\ proc' = "aborted"
        /\ UNCHANGED <<cq, tag, ok, cur>>
  /\ UNCHANGED <<heap, gen, reg, pending, inflight, serverShutdown,
                 cqShutdown, stopPc, calls, hist>>

\* lines 170-171: GPR_ASSERT(cq_->Next(&tag, &ok)); GPR_ASSERT(ok);
\* Next blocks until an event is there (returns true) or the queue is shut
\* down and drained (returns false).  A failed GPR_ASSERT aborts the process;
\* otherwise line 172 calls Proceed on the tag.
HandleRpcs_Next(t) ==
  /\ Running /\ pc[t] = "next"
  /\ \/ \E e \in cq :
          /\ cq' = cq \ {e}
          /\ tag' = [tag EXCEPT ![t] = e.tag]
          /\ ok' = [ok EXCEPT ![t] = e.ok]
          /\ cur' = [cur EXCEPT ![t] = [id |-> e.id, kind |-> e.kind]]
          /\ nextRet' = [nextRet EXCEPT ![t] = "event"]
          /\ IF e.ok
               THEN pc' = [pc EXCEPT ![t] = "proceed"] /\ proc' = proc
               ELSE pc' = [pc EXCEPT ![t] = "assert_ok"] /\ proc' = "aborted"
     \/ /\ cqShutdown /\ cq = {}
        /\ nextRet' = [nextRet EXCEPT ![t] = "shutdown"]
        /\ pc' = [pc EXCEPT ![t] = "assert_next"]
        /\ proc' = "aborted"
        /\ UNCHANGED <<cq, tag, ok, cur>>
  /\ UNCHANGED <<heap, gen, reg, pending, inflight, serverShutdown,
                 cqShutdown, stopPc, calls, hist>>

\* Variant of Proceed: the FINISH branch forgets `delete this`.
Proceed_Leak(t) ==
  /\ Running /\ pc[t] = "proceed" /\ Valid(t)
  /\ adv' = [adv EXCEPT ![tag[t]] =
               Append(@, [event |-> cur[t].kind,
                          status |-> heap[tag[t]].status_])]
  /\ IF heap[tag[t]].status_ = "PROCESS"
       THEN /\ heap' = [heap EXCEPT ![tag[t]].status_ = "FINISH"]
            /\ pc' = [pc EXCEPT ![t] = "process_new"]
       ELSE /\ heap' = heap
            /\ pc' = [pc EXCEPT ![t] = "return"]
  /\ UNCHANGED <<gen, rt, stopPc, locals, proc, calls, relCount>>

\* Variant of Proceed: the test of status_ is inverted, so `delete this` runs
\* in PROCESS.
Proceed_Inverted(t) ==
  /\ Running /\ pc[t] = "proceed" /\ Valid(t)
  /\ adv' = [adv EXCEPT ![tag[t]] =
               Append(@, [event |-> cur[t].kind,
                          status |-> heap[tag[t]].status_])]
  /\ IF heap[tag[t]].status_ # "PROCESS"
       THEN /\ heap' = [heap EXCEPT ![tag[t]].status_ = "FINISH"]
            /\ pc' = [pc EXCEPT ![t] = "process_new"]
            /\ relCount' = relCount
       ELSE /\ heap' = [heap EXCEPT ![tag[t]] = Free]
            /\ relCount' = [relCount EXCEPT ![tag[t]] = @ + 1]
            /\ pc' = [pc EXCEPT ![t] = "return"]
  /\ UNCHANGED <<gen, rt, stopPc, locals, proc, calls>>

\* Variant of Proceed: line 56 (status_ = FINISH) is missing.
Proceed_NoSetFinish(t) ==
  /\ Running /\ pc[t] = "proceed" /\ Valid(t)
  /\ adv' = [adv EXCEPT ![tag[t]] =
               Append(@, [event |-> cur[t].kind,
                          status |-> heap[tag[t]].status_])]
  /\ IF heap[tag[t]].status_ = "PROCESS"
       THEN /\ heap' = heap
            /\ pc' = [pc EXCEPT ![t] = "process_new"]
            /\ relCount' = relCount
       ELSE /\ heap' = [heap EXCEPT ![tag[t]] = Free]
            /\ relCount' = [relCount EXCEPT ![tag[t]] = @ + 1]
            /\ pc' = [pc EXCEPT ![t] = "return"]
  /\ UNCHANGED <<gen, rt, stopPc, locals, proc, calls>>

\* Variant of Proceed: the FINISH branch resets the instance for another
\* call (status_ = PROCESS) instead of deleting it.
Proceed_Rearm(t) ==
  /\ Running /\ pc[t] = "proceed" /\ Valid(t)
  /\ adv' = [adv EXCEPT ![tag[t]] =
               Append(@, [event |-> cur[t].kind,
                          status |-> heap[tag[t]].status_])]
  /\ IF heap[tag[t]].status_ = "PROCESS"
       THEN /\ heap' = [heap EXCEPT ![tag[t]].status_ = "FINISH"]
            /\ pc' = [pc EXCEPT ![t] = "process_new"]
       ELSE /\ heap' = [heap EXCEPT ![tag[t]].status_ = "PROCESS"]
            /\ pc' = [pc EXCEPT ![t] = "return"]
  /\ UNCHANGED <<gen, rt, stopPc, locals, proc, calls, relCount>>

\* ---- CallDataBase::Proceed ----
\* lines 52-57: if (status_ == PROCESS) { status_ = FINISH; Process(); }
\* lines 58-61: else { GPR_ASSERT(status_ == FINISH); delete this; }
Proceed(t) ==
  /\ Running /\ pc[t] = "proceed"
  /\ \/ /\ Valid(t)
        /\ adv' = [adv EXCEPT ![tag[t]] =
                     Append(@, [event |-> cur[t].kind,
                                status |-> heap[tag[t]].status_])]
        /\ IF heap[tag[t]].status_ = "PROCESS"
             THEN /\ heap' = [heap EXCEPT ![tag[t]].status_ = "FINISH"]
                  /\ pc' = [pc EXCEPT ![t] = "process_new"]
                  /\ relCount' = relCount
             ELSE /\ heap' = [heap EXCEPT ![tag[t]] = Free]
                  /\ relCount' = [relCount EXCEPT ![tag[t]] = @ + 1]
                  /\ pc' = [pc EXCEPT ![t] = "return"]
        /\ UNCHANGED <<gen, rt, stopPc, locals, proc, calls>>
     \/ \* stale tag: whatever is read as status_, possibly a second delete
        /\ ~Valid(t)
        /\ proc' = "undefined"
        /\ \E d \in {0, 1} :
             relCount' = [relCount EXCEPT ![tag[t]] = @ + d]
        /\ UNCHANGED <<heap, gen, rt, stopPc, pc, locals, calls, adv>>

\* Variant of Proceed_Return: after Finish, Process() reads a member of the
\* instance once more (say, to log reply_) before it returns.
Proceed_ReturnTouches(t) ==
  /\ Running /\ pc[t] = "return"
  /\ IF cur[t].kind = "PROCESS" /\ ~Valid(t)
       THEN /\ proc' = "undefined"
            /\ UNCHANGED <<pc, locals>>
       ELSE /\ pc' = [pc EXCEPT ![t] = "next"]
            /\ tag' = [tag EXCEPT ![t] = 0]
            /\ ok' = [ok EXCEPT ![t] = FALSE]
            /\ nextRet' = [nextRet EXCEPT ![t] = "none"]
            /\ cur' = [cur EXCEPT ![t] = NoEvent]
            /\ proc' = proc
  /\ UNCHANGED <<heap, gen, rt, stopPc, calls, hist>>

\* lines 63 and 172-173: Proceed returns and the loop goes round.
Proceed_Return(t) ==
  /\ Running /\ pc[t] = "return"
  /\ pc' = [pc EXCEPT ![t] = "next"]
  /\ tag' = [tag EXCEPT ![t] = 0]
  /\ ok' = [ok EXCEPT ![t] = FALSE]
  /\ nextRet' = [nextRet EXCEPT ![t] = "none"]
  /\ cur' = [cur EXCEPT ![t] = NoEvent]
  /\ UNCHANGED <<heap, gen, rt, stopPc, proc, calls, hist>>

\* Variant of Process_New: line 86/111 is missing, no sibling is constructed.
Process_NewSkipped(t) ==
  /\ Running /\ pc[t] = "process_new" /\ Valid(t)
  /\ pc' = [pc EXCEPT ![t] = "process_finish"]
  /\ UNCHANGED <<heap, gen, rt, stopPc, locals, proc, calls, hist>>

\* Variant of Process_New: Finish is issued first, before the sibling is
\* constructed and the reply is set.
Process_NewFinishFirst(t) ==
  /\ Running /\ pc[t] = "process_new" /\ Valid(t)
  /\ \E a \in Addr : Construct(heap[tag[t]].type, a)
  /\ pending' = pending \cup {[tag |-> tag[t], id |-> heap[tag[t]].id]}
  /\ pc' = [pc EXCEPT ![t] = "process_finish"]
  /\ UNCHANGED <<inflight, serverShutdown, cqShutdown, stopPc, locals, proc,
                 calls>>

\* Variant of Process_New: the sibling constructed is of the other class
\* (ByeCallData::Process copied from HelloCallData::Process with line 111
\* left as new HelloCallData, and the other way round).
Process_NewWrongType(t) ==
  /\ Running /\ pc[t] = "process_new" /\ Valid(t)
  /\ \E a \in Addr :
       Construct(IF heap[tag[t]].type = "Hello" THEN "Bye" ELSE "Hello", a)
  /\ pc' = [pc EXCEPT ![t] = "process_finish"]
  /\ UNCHANGED <<pending, inflight, serverShutdown, cqShutdown, stopPc,
                 locals, proc, calls>>

\* ---- HelloCallData::Process / ByeCallData::Process ----
\* lines 86, 111: new HelloCallData(service_, cq_) / new ByeCallData(...),
\* chosen by the dynamic type of *this.
Process_New(t) ==
  /\ Running /\ pc[t] = "process_new"
  /\ \/ /\ Valid(t)
        /\ \E a \in Addr : Construct(heap[tag[t]].type, a)
        /\ pc' = [pc EXCEPT ![t] = "process_finish"]
        /\ UNCHANGED <<pending, inflight, serverShutdown, cqShutdown, stopPc,
                       locals, proc, calls>>
     \/ UseAfterRelease(t)

\* Variant of Prefix: ByeCallData::Process keeps the prefix it was copied with.
Prefix_Copied(m) == "Hello "

\* lines 88, 113: std::string prefix("Hello ") / prefix("Goodbye ")
Prefix(m) == IF m = "Hello" THEN "Hello " ELSE "Goodbye "

\* lines 89, 114: prefix + request_.name()
Message(m, n) == Prefix(m) \o n

\* Variant of Process_Finish: the reply is set but line 93/118
\* (responder_.Finish) is missing.
Process_FinishNotIssued(t) ==
  /\ Running /\ pc[t] = "process_finish" /\ Valid(t)
  /\ heap' = [heap EXCEPT ![tag[t]].reply_ =
                 Message(heap[tag[t]].type, heap[tag[t]].request_)]
  /\ pc' = [pc EXCEPT ![t] = "return"]
  /\ UNCHANGED <<gen, rt, stopPc, locals, proc, calls, hist>>

\* Variant of Process_Finish: after Finish the instance also requests a new
\* call for itself (the request of the constructor repeated in Process).
Process_FinishAndRequest(t) ==
  /\ Running /\ pc[t] = "process_finish" /\ Valid(t)
  /\ LET msg == Message(heap[tag[t]].type, heap[tag[t]].request_) IN
       heap' = [heap EXCEPT ![tag[t]].reply_ = msg,
                            ![tag[t]].responder_ =
                               [finished |-> TRUE, msg |-> msg,
                                status |-> "OK"]]
  /\ pending' = pending \cup {[tag |-> tag[t], id |-> heap[tag[t]].id]}
  /\ reg' = reg \cup {[tag |-> tag[t], method |-> heap[tag[t]].type,
                        id |-> heap[tag[t]].id]}
  /\ pc' = [pc EXCEPT ![t] = "return"]
  /\ UNCHANGED <<gen, inflight, cq, serverShutdown, cqShutdown, stopPc,
                 locals, proc, calls, hist>>

\* Variant of Process_Finish: reply_ is one buffer shared by the instances of
\* a class (a static member), so setting it sets it in all of them.
Process_FinishSharedReply(t) ==
  /\ Running /\ pc[t] = "process_finish" /\ Valid(t)
  /\ LET msg == Message(heap[tag[t]].type, heap[tag[t]].request_) IN
       heap' = [a \in Addr |->
                 IF a = tag[t]
                   THEN [heap[a] EXCEPT !.reply_ = msg,
                                        !.responder_ =
                                           [finished |-> TRUE, msg |-> msg,
                                            status |-> "OK"]]
                   ELSE IF heap[a].type = heap[tag[t]].type
                          THEN [heap[a] EXCEPT !.reply_ = msg]
                          ELSE heap[a]]
  /\ pending' = pending \cup {[tag |-> tag[t], id |-> heap[tag[t]].id]}
  /\ pc' = [pc EXCEPT ![t] = "return"]
  /\ UNCHANGED <<gen, reg, inflight, cq, serverShutdown, cqShutdown, stopPc,
                 locals, proc, calls, hist>>

\* lines 88-93, 113-118: reply_.set_message(prefix + request_.name());
\* responder_.Finish(reply_, Status::OK, this);
Process_Finish(t) ==
  /\ Running /\ pc[t] = "process_finish"
  /\ \/ /\ Valid(t)
        /\ LET msg == Message(heap[tag[t]].type, heap[tag[t]].request_) IN
             heap' = [heap EXCEPT ![tag[t]].reply_ = msg,
                                  ![tag[t]].responder_ =
                                     [finished |-> TRUE, msg |-> msg,
                                      status |-> "OK"]]
        /\ pending' = pending \cup {[tag |-> tag[t], id |-> heap[tag[t]].id]}
        /\ pc' = [pc EXCEPT ![t] = "return"]
        /\ UNCHANGED <<gen, reg, inflight, cq, serverShutdown,
                       cqShutdown, stopPc, locals, proc, calls, hist>>
     \/ UseAfterRelease(t)

\* ---- the gRPC runtime ----
\* A client call of method m with name n is matched to a registered acceptor
\* (lines 82, 107): the request buffer is filled and the tag posted, ok = true.
Runtime_Call(m, n) ==
  /\ Running /\ ~serverShutdown /\ calls < MaxCalls
  /\ \E r \in reg :
       /\ r.method = m
       /\ reg' = reg \ {r}
       /\ heap' = [heap EXCEPT ![r.tag].request_ = n]
       /\ cq' = cq \cup {Event(r.tag, TRUE, r.id, "PROCESS")}
       /\ inflight' = inflight \cup {r.tag}
  /\ calls' = calls + 1
  /\ UNCHANGED <<gen, pending, serverShutdown, cqShutdown, stopPc, pc,
                 locals, proc, hist>>

\* The response of a Finish (lines 93, 118) went to the wire: tag posted.
Runtime_FinishDone ==
  /\ Running
  /\ \E p \in pending :
       /\ pending' = pending \ {p}
       /\ cq' = cq \cup {Event(p.tag, TRUE, p.id, "FINISH")}
       /\ inflight' = inflight \ {p.tag}
  /\ UNCHANGED <<heap, gen, reg, serverShutdown, cqShutdown, stopPc,
                 pc, locals, proc, calls, hist>>

\* The call of a Finish was already dead (cancelled by the peer): the tag is
\* posted with ok = false.
Runtime_FinishDead ==
  /\ Running
  /\ \E p \in pending :
       /\ pending' = pending \ {p}
       /\ cq' = cq \cup {Event(p.tag, FALSE, p.id, "FINISH")}
       /\ inflight' = inflight \ {p.tag}
  /\ UNCHANGED <<heap, gen, reg, serverShutdown, cqShutdown, stopPc,
                 pc, locals, proc, calls, hist>>

\* ---- ServerImpl::~ServerImpl ----
Started == \A t \in Threads : pc[t] \notin {"new_hello", "new_bye"}

\* Variant of Stop_ServerShutdown: ~ServerImpl deletes the instances of the
\* acceptors it cancels instead of leaving them to the queue.
Stop_ServerShutdownReleases ==
  /\ Running /\ stopPc = "idle" /\ Started
  /\ serverShutdown' = TRUE
  /\ reg' = {}
  /\ heap' = [a \in Addr |->
                IF \E r \in reg : r.tag = a THEN Free ELSE heap[a]]
  /\ relCount' = [a \in Addr |->
                    IF \E r \in reg : r.tag = a THEN relCount[a] + 1
                                                 ELSE relCount[a]]
  /\ stopPc' = "server_wait"
  /\ UNCHANGED <<gen, pending, inflight, cq, cqShutdown, pc, locals, proc,
                 calls, adv>>

\* line 131, the call: server_->Shutdown() stops accepting and cancels the
\* registered acceptors, whose tags are posted with ok = false.
Stop_ServerShutdown ==
  /\ Running /\ stopPc = "idle" /\ Started
  /\ serverShutdown' = TRUE
  /\ reg' = {}
  /\ cq' = cq \cup {Event(r.tag, FALSE, r.id, "PROCESS") : r \in reg}
  /\ stopPc' = "server_wait"
  /\ UNCHANGED <<heap, gen, pending, inflight, cqShutdown, pc, locals,
                 proc, calls, hist>>

\* Variant of Stop_CqShutdown: the queue is shut down without the server having
\* been shut down first.
Stop_CqShutdownFirst ==
  /\ Running /\ stopPc = "idle" /\ Started /\ ~cqShutdown
  /\ cqShutdown' = TRUE
  /\ UNCHANGED <<heap, gen, reg, pending, inflight, cq,
                 serverShutdown, stopPc, pc, locals, proc, calls, hist>>

\* line 131, the return, and line 133: Shutdown() blocks until every call in
\* flight is finished; then cq_->Shutdown();
Stop_CqShutdown ==
  /\ Running /\ stopPc = "server_wait"
  /\ inflight = {}
  /\ cqShutdown' = TRUE
  /\ stopPc' = "done"
  /\ UNCHANGED <<heap, gen, reg, pending, inflight, cq,
                 serverShutdown, pc, locals, proc, calls, hist>>

Next ==
  \/ \E t \in Threads : HandleRpcs_NewHello(t)
  \/ \E t \in Threads : HandleRpcs_NewBye(t)
  \/ \E t \in Threads : HandleRpcs_Next(t)
  \/ \E t \in Threads : Proceed(t)
  \/ \E t \in Threads : Proceed_Return(t)
  \/ \E t \in Threads : Process_New(t)
  \/ \E t \in Threads : Process_Finish(t)
  \/ \E m \in Methods, n \in Names : Runtime_Call(m, n)
  \/ Runtime_FinishDone
  \/ Runtime_FinishDead
  \/ Stop_ServerShutdown
  \/ Stop_CqShutdown

Spec == Init /\ [][Next]_vars

\* The dispatch loop started on a queue that is already shut down and
\* drained: every thread has primed its instances, ~ServerImpl has run and the
\* events of the cancelled acceptors are gone.  Under Spec this state is
\* masked: Stop_ServerShutdown always posts an ok = false event and line 171
\* aborts on it before the queue can drain.
InitDrained ==
  /\ heap = [a \in Addr |->
               IF a \in 1..NumThreads
                 THEN CallDataBase("Hello", 1)
                 ELSE IF a \in (MaxPerMethod + 1)..(MaxPerMethod + NumThreads)
                        THEN CallDataBase("Bye", 1)
                        ELSE Free]
  /\ gen = [a \in Addr |->
              IF a \in 1..NumThreads
                   \/ a \in (MaxPerMethod + 1)..(MaxPerMethod + NumThreads)
                THEN 1 ELSE 0]
  /\ reg = {}
  /\ pending = {}
  /\ inflight = {}
  /\ cq = {}
  /\ serverShutdown = TRUE
  /\ cqShutdown = TRUE
  /\ stopPc = "done"
  /\ pc = [t \in Threads |-> "next"]
  /\ tag = [t \in Threads |-> 0]
  /\ ok = [t \in Threads |-> FALSE]
  /\ nextRet = [t \in Threads |-> "none"]
  /\ cur = [t \in Threads |-> NoEvent]
  /\ proc = "running"
  /\ calls = 0
  /\ adv = [a \in Addr |-> <<>>]
  /\ relCount = [a \in Addr |-> 0]

SpecDrained == (Init \/ InitDrained) /\ [][Next]_vars

\* The steps of dispatcher thread t (HandleRpcs and what it calls).
ThreadStep(t) ==
  \/ HandleRpcs_NewHello(t)
  \/ HandleRpcs_NewBye(t)
  \/ HandleRpcs_Next(t)
  \/ Proceed(t)
  \/ Proceed_Return(t)
  \/ Process_New(t)
  \/ Process_Finish(t)

\* The server while ~ServerImpl is not run (main never leaves Run, line 184).
NextServing ==
  \/ \E t \in Threads : ThreadStep(t)
  \/ \E m \in Methods, n \in Names : Runtime_Call(m, n)
  \/ Runtime_FinishDone
  \/ Runtime_FinishDead

\* Fair scheduling of a server that is not stopped: a dispatcher thread that
\* can take a step eventually takes one, and the runtime eventually
\* completes an issued Finish, one way or the other.  Clients are under no
\* obligation.
SpecFair ==
  /\ Init /\ [][NextServing]_vars
  /\ \A t \in Threads : WF_vars(ThreadStep(t))
  /\ WF_vars(Runtime_FinishDone \/ Runtime_FinishDead)

\* ---- properties ----
Primed(t) == pc[t] \notin {"new_hello", "new_bye"}

\* Some thread has finished lines 160-161: startup is over.
AfterStartup == \E t \in Threads : Primed(t)

Processing(m) ==
  \E a \in Addr : heap[a].type = m /\ heap[a].status_ = "PROCESS"

\* Thread t has set status_ = FINISH (line 56) on an instance of m and has not
\* yet constructed its sibling (line 86/111).
Replenishing(t, m) ==
  pc[t] = "process_new" /\ Valid(t) /\ heap[tag[t]].type = m

\* Thread t has started a Proceed that has not returned.
InProceed(t) == pc[t] \in {"proceed", "process_new", "process_finish", "return"}

\* Thread t has started a Proceed that has yet to touch the instance.
Accessing(t) == pc[t] \in {"proceed", "process_new", "process_finish"}

SameInstance(t, u) == tag[t] = tag[u] /\ cur[t].id = cur[u].id

AdvProcess == [event |-> "PROCESS", status |-> "PROCESS"]
AdvFinish == [event |-> "FINISH", status |-> "FINISH"]

\* C1 (as claimed): after startup every method has, in every state, an
\* instance whose status_ is PROCESS.
C1_AlwaysProcessing ==
  AfterStartup => \A m \in Methods : Processing(m)

\* C1 (amended): after startup every method has an instance whose status_ is
\* PROCESS, except while a thread is between line 56 and line 86/111 of the
\* Proceed of an instance of that method, about to construct the sibling.
C1_ProcessingOrReplenishing ==
  AfterStartup =>
    \A m \in Methods : Processing(m) \/ \E t \in Threads : Replenishing(t, m)

\* A call was dispatched and its sibling is in place while the reply is
\* still to be produced.
C1_Witness ==
  \E t \in Threads :
    /\ pc[t] = "process_finish"
    /\ \E a \in Addr : a # tag[t] /\ heap[a].type = heap[tag[t]].type
                       /\ heap[a].status_ = "PROCESS"

\* C2: no instance is deleted more than once, and every instance for which
\* Proceed was invoked on its FINISH event has been deleted by that Proceed.
C2_ReleasedExactlyOnce ==
  \A i \in Addr :
    /\ relCount[i] <= 1
    /\ (\E k \in 1..Len(adv[i]) : adv[i][k].event = "FINISH")
         => relCount[i] = 1

\* An instance was deleted by the Proceed of its FINISH event.
C2_Witness ==
  \E i \in Addr : relCount[i] = 1 /\ Len(adv[i]) = 2 /\ adv[i][2].event = "FINISH"

\* C3: every deleted instance was deleted by a Proceed that found status_ =
\* FINISH, never PROCESS, and no thread ever dereferences the tag of a
\* deleted instance (no step is undefined behaviour).
C3_NoReleaseInProcessNoUseAfter ==
  /\ proc # "undefined"
  /\ \A i \in Addr :
       relCount[i] >= 1 =>
         /\ adv[i] # <<>>
         /\ adv[i][Len(adv[i])].status = "FINISH"
  /\ \A t \in Threads : Accessing(t) => Valid(t)

\* A thread has deleted the instance of its tag and is returning with the
\* dangling tag.
C3_Witness ==
  \E t \in Threads :
    pc[t] = "return" /\ cur[t].kind = "FINISH" /\ relCount[tag[t]] = 1
    /\ ~Valid(t)

\* C4: Proceed is invoked on an instance at most twice, first on its PROCESS
\* event with status_ = PROCESS, then on its FINISH event with status_ =
\* FINISH; a deleted instance has had exactly these two; a live one has had
\* none while in PROCESS and the first only while in FINISH.
C4_AdvancedTwiceInOrder ==
  /\ \A i \in Addr :
       /\ adv[i] \in {<<>>, <<AdvProcess>>, <<AdvProcess, AdvFinish>>}
       /\ relCount[i] >= 1 => adv[i] = <<AdvProcess, AdvFinish>>
  /\ \A a \in Addr :
       Live(a) => adv[a] = IF heap[a].status_ = "PROCESS"
                                      THEN <<>> ELSE <<AdvProcess>>

\* An instance has gone through both advances.
C4_Witness ==
  \E i \in Addr : adv[i] = <<AdvProcess, AdvFinish>> /\ relCount[i] = 1

\* C5 (as claimed): no two threads are inside Proceed of the same instance.
C5_NeverConcurrent ==
  \A t, u \in Threads :
    (t # u /\ InProceed(t) /\ InProceed(u)) => ~SameInstance(t, u)

\* C5 (amended): from the start of a Proceed until its last access to the
\* instance (Finish issued, or delete this), no other thread starts Proceed
\* on the same instance; the FINISH Proceed may start on another thread
\* while the PROCESS Proceed is only returning.
C5_NeverConcurrentAccess ==
  \A t, u \in Threads :
    (t # u /\ Accessing(t) /\ Accessing(u)) => ~SameInstance(t, u)

\* One thread is returning from the PROCESS Proceed while another has
\* started the FINISH Proceed of the same instance.
C5_Witness ==
  \E t, u \in Threads :
    /\ t # u /\ SameInstance(t, u)
    /\ pc[t] = "return" /\ cur[t].kind = "PROCESS"
    /\ pc[u] = "proceed" /\ cur[u].kind = "FINISH"

C8_StopWithoutAbort ==
  (stopPc # "idle" /\ inflight # {}) =>
    (proc = "running" /\ \A i \in Addr : relCount[i] <= 1)

C10_ServerBeforeQueue ==
  /\ [](cqShutdown => serverShutdown)
  /\ [][cqShutdown => cq' \subseteq cq]_vars

\* The queue was shut down with events still to be drained.
C10_Witness ==
  cqShutdown /\ cq # {} /\ proc = "running"

\* Thread t holds an event whose success flag is false.
GotNotOk(t) == nextRet[t] = "event" /\ ~ok[t]

\* C11: a thread that obtains an event with ok = false aborts the process at
\* once: Proceed is never entered for it, and the step that obtains it
\* leaves every instance, the acceptors, the issued finishes and the record
\* of advances and releases as they were; nothing happens after the abort.
C11_NotOkAborts ==
  /\ [](\A t \in Threads :
          GotNotOk(t) => proc = "aborted" /\ pc[t] = "assert_ok")
  /\ [][(\E t \in Threads : ~GotNotOk(t) /\ GotNotOk(t)')
          => /\ proc' = "aborted"
             /\ UNCHANGED <<heap, gen, reg, pending, adv, relCount>>]_vars
  /\ [][proc = "running"]_vars

\* The event of a cancelled acceptor was obtained: the process has aborted and
\* the instance is still there, in PROCESS, never advanced.
C11_Witness ==
  \E t \in Threads :
    /\ GotNotOk(t) /\ proc = "aborted"
    /\ Live(tag[t]) /\ heap[tag[t]].status_ = "PROCESS" /\ adv[tag[t]] = <<>>

\* Number of instances of class m constructed so far.
Constructed(m) ==
  LET Sum[k \in 0..(2 * MaxPerMethod)] ==
        IF k = 0 THEN 0
        ELSE Sum[k - 1] + (IF k \in Arena(m) THEN gen[k] ELSE 0)
  IN Sum[2 * MaxPerMethod]

\* C12 (as claimed): once every dispatcher thread has started, and as long as
\* no call was accepted, exactly one instance of each method has been
\* constructed, whatever the number of threads; and no event is dispatched
\* before that.
C12_OneInitialPerMethod ==
  /\ (Started /\ calls = 0) => \A m \in Methods : Constructed(m) = 1
  /\ (\E t \in Threads : InProceed(t)) => Started

\* The request for a call made by the constructor of the instance at a in
\* the step taken: registered as acceptor of method m, or, on a server that
\* is shutting down, completed at once with ok = false.
Requested(m, a) ==
  \/ reg' = reg \cup {[tag |-> a, method |-> m, id |-> gen'[a]]}
  \/ serverShutdown /\ Event(a, FALSE, gen'[a], "PROCESS") \in cq'

\* C13: a Proceed that finds status_ = PROCESS goes on to construct exactly
\* one sibling, of the class of the instance advanced, in PROCESS and with
\* its request for a call made; the Finish of the instance advanced is issued
\* only after that, by the same Proceed, and in no other way.
C13_SiblingBeforeFinish ==
  /\ [][\A t \in Threads :
         (pc[t] = "proceed" /\ pc'[t] # "proceed"
            /\ heap[tag[t]].status_ = "PROCESS")
           => pc'[t] = "process_new"]_vars
  /\ [][\A t \in Threads :
         (pc[t] = "process_new" /\ pc'[t] # "process_new")
           => /\ pc'[t] = "process_finish"
              /\ pending' = pending
              /\ \E a \in Addr \ {tag[t]} :
                   /\ gen' = [gen EXCEPT ![a] = @ + 1]
                   /\ heap'[a].type = heap[tag[t]].type
                   /\ heap'[a].status_ = "PROCESS"
                   /\ Requested(heap[tag[t]].type, a)]_vars
  /\ [][pending' \ pending # {}
         => \E t \in Threads :
              /\ pc[t] = "process_finish" /\ pc'[t] = "return"
              /\ pending' \ pending = {[tag |-> tag[t], id |-> cur[t].id]}]_vars

\* A farewell is being advanced: its sibling is registered as the acceptor of
\* farewells and its Finish is not yet issued.
C13_Witness ==
  \E t \in Threads :
    /\ pc[t] = "process_finish" /\ heap[tag[t]].type = "Bye"
    /\ [tag |-> tag[t], id |-> cur[t].id] \notin pending
    /\ \E r \in reg : r.method = "Bye" /\ r.tag # tag[t]

\* The instance at a is the same one before and after the step taken.
Stays(a) == Live(a) /\ Live(a)' /\ gen'[a] = gen[a]

\* The step taken is a Proceed invoked on the instance at a.
Advanced(a) == Len(adv'[a]) = Len(adv[a]) + 1

\* The step taken issues Finish on the instance at a.
FinishIssued(a) ==
  Stays(a) /\ ~heap[a].responder_.finished /\ heap'[a].responder_.finished

\* C14: an instance is created in PROCESS; a Proceed in PROCESS moves it to
\* FINISH and leaves it alive, and Finish is issued on it once, with its own
\* address as tag, while it is in FINISH; a Proceed in FINISH deletes it; in
\* no step does an instance go from FINISH back to PROCESS, and a deleted
\* instance has no state until its address is constructed at again.
C14_LifecycleMonotone ==
  /\ [][\A a \in Addr :
         /\ gen'[a] # gen[a]
              => ~Live(a) /\ Live(a)' /\ heap'[a].status_ = "PROCESS"
         /\ (Live(a) /\ heap[a].status_ = "PROCESS")
              => Stays(a) /\ (Advanced(a) <=> heap'[a].status_ = "FINISH")
         /\ (Live(a) /\ heap[a].status_ = "FINISH")
              => IF Advanced(a) THEN ~Live(a)'
                 ELSE Stays(a) /\ heap'[a].status_ = "FINISH"
         /\ (~Live(a) /\ gen'[a] = gen[a]) => heap'[a] = Free
         /\ (Stays(a) /\ heap[a].responder_.finished)
              => heap'[a].responder_.finished]_vars
  /\ [][pending' \ pending =
         {[tag |-> a, id |-> heap[a].id] : a \in {b \in Addr : FinishIssued(b)}}
      ]_vars
  /\ [](\A a \in Addr :
          (Live(a) /\ heap[a].responder_.finished)
            => heap[a].status_ = "FINISH")

\* An instance was advanced from PROCESS: it is alive in FINISH and its
\* Finish is issued, the tag not yet posted.
C14_Witness ==
  \E a \in Addr :
    /\ Live(a) /\ heap[a].status_ = "FINISH" /\ heap[a].responder_.finished
    /\ [tag |-> a, id |-> heap[a].id] \in pending
    /\ adv[a] = <<AdvProcess>>

\* The call accepted by the instance at a has run to completion: both
\* Proceeds were invoked (so Finish was issued) and the instance is deleted.
Completed(a) == relCount[a] = 1 /\ adv[a] = <<AdvProcess, AdvFinish>>

\* A call was matched to the instance at a (its request is filled in) and
\* the instance is not yet deleted.
Unfinished(a) == Live(a) /\ heap[a].request_ # ""

\* C15 (as claimed): under fair scheduling of a server that is not stopped,
\* every call matched to an instance leads to that instance being deleted
\* after both its Proceeds.  Clients make finitely many calls, so this is:
\* again and again no matched instance is left undeleted.
C15_AcceptedCallCompletes ==
  []<>(\A a \in Addr : ~Unfinished(a))

\* C15 (amended): ... or to the process aborting on an event with ok = false
\* (the Finish of a call that was already dead).
C15_AcceptedCallCompletesOrAborts ==
  []<>(proc = "aborted" \/ \A a \in Addr : ~Unfinished(a))

\* A call was matched and has run to completion on a server never stopped.
C15_Witness ==
  \E a \in Addr :
    Completed(a) /\ stopPc = "idle" /\ proc = "running" /\ calls >= 1

\* Number of transport operations and events outstanding with tag a: requests
\* for a call, issued Finishes, and events posted and not yet obtained.
Outstanding(a) ==
  Cardinality({r \in reg : r.tag = a})
    + Cardinality({p \in pending : p.tag = a})
    + Cardinality({e \in cq : e.tag = a})

\* C16: no address is the tag of more than one outstanding operation or
\* event; none is outstanding while a thread is dispatching the PROCESS
\* event of the instance and has not issued its Finish; and a Finish is
\* outstanding only for an instance whose PROCESS event was consumed.
C16_OneOutstandingPerInstance ==
  /\ \A a \in Addr : Outstanding(a) <= 1
  /\ \A t \in Threads :
       (Accessing(t) /\ cur[t].kind = "PROCESS") => Outstanding(tag[t]) = 0
  /\ \A p \in pending : adv[p.tag] = <<AdvProcess>>
  /\ \A e \in cq : e.kind = "FINISH" => adv[e.tag] = <<AdvProcess>>

\* The FINISH event of an instance is in the queue, and nothing else is
\* outstanding for the instance.
C16_Witness ==
  \E e \in cq : e.kind = "FINISH" /\ e.ok /\ Outstanding(e.tag) = 1

\* The step taken is a step of the Proceed thread t was called into with
\* the event it obtained.
Dispatching(t) == Accessing(t) /\ pc'[t] # pc[t]

\* C17: a step of the Proceed of the instance at tag[t] leaves every other
\* live instance as it was and constructs at most one instance, with empty
\* request and reply; it does not write the request of its own instance;
\* and a request is written only into the instance the call is matched to.
C17_DispatchTouchesOnlyOwnInstance ==
  /\ [][\A t \in Threads :
         Dispatching(t) =>
           /\ \A a \in Addr \ {tag[t]} : Live(a) => heap'[a] = heap[a]
           /\ Cardinality({a \in Addr : ~Live(a) /\ Live(a)'}) <= 1
           /\ \A a \in Addr :
                (~Live(a) /\ Live(a)')
                  => heap'[a].request_ = "" /\ heap'[a].reply_ = ""
           /\ Live(tag[t])' =>
                heap'[tag[t]].request_ = heap[tag[t]].request_]_vars
  /\ [][\A a \in Addr :
         (Stays(a) /\ heap'[a].request_ # heap[a].request_)
           => a \in inflight' \ inflight]_vars

\* A reply was produced in one instance while its sibling, of the same class
\* and alive, has none.
C17_Witness ==
  \E t \in Threads :
    /\ pc[t] = "return" /\ cur[t].kind = "PROCESS" /\ Valid(t)
    /\ heap[tag[t]].reply_ # ""
    /\ \E b \in Addr \ {tag[t]} :
         heap[b].type = heap[tag[t]].type /\ heap[b].reply_ = ""

\* The instances of class m whose status_ is PROCESS.
InProcess(m) ==
  {a \in Addr : heap[a].type = m /\ heap[a].status_ = "PROCESS"}

\* Number of Proceeds invoked so far on instances of class m in PROCESS: one
\* for every instance constructed earlier at an address (it was deleted, so
\* it was advanced) and one for the latest if it has been advanced.
ProcessAdvances(m) ==
  LET Sum[k \in 0..(2 * MaxPerMethod)] ==
        IF k = 0 THEN 0
        ELSE Sum[k - 1]
               + (IF k \in Arena(m) /\ gen[k] > 0
                    THEN (gen[k] - 1) + (IF adv[k] # <<>> THEN 1 ELSE 0)
                    ELSE 0)
  IN Sum[2 * MaxPerMethod]

\* C18 (as claimed): when every thread has started and none is inside
\* Proceed, each method has exactly one instance in PROCESS, and the number
\* of instances constructed for it is one plus the number of Proceeds
\* invoked on its instances in PROCESS.
C18_OneProcessingPerMethod ==
  (Started /\ \A t \in Threads : ~InProceed(t)) =>
    \A m \in Methods :
      /\ Cardinality(InProcess(m)) = 1
      /\ Constructed(m) = 1 + ProcessAdvances(m)

\* Thread t has issued the Finish of its PROCESS Proceed and is returning.
AfterFinish(t) == pc[t] = "return" /\ cur[t].kind = "PROCESS"

\* The Finish issued for the instance of t's event has its tag pending, in
\* the queue or obtained by a thread, or the instance is deleted already.
FinishUnderWay(t) ==
  \/ [tag |-> tag[t], id |-> cur[t].id] \in pending
  \/ \E e \in cq : e.tag = tag[t] /\ e.id = cur[t].id /\ e.kind = "FINISH"
  \/ \E u \in Threads :
       tag[u] = tag[t] /\ cur[u].id = cur[t].id /\ cur[u].kind = "FINISH"
  \/ ~Valid(t)

\* C19: a thread that has issued Finish in a PROCESS Proceed only returns:
\* its next step takes it back to Next and writes no instance, whether or
\* not the instance was deleted meanwhile by the thread that obtained the
\* FINISH event, and no step of any thread touches a deleted instance.
C19_FinishIsLastAccess ==
  /\ [](proc # "undefined")
  /\ [](\A t \in Threads : AfterFinish(t) => FinishUnderWay(t))
  /\ [][\A t \in Threads :
         (AfterFinish(t) /\ ~AfterFinish(t)')
           => heap' = heap /\ pc'[t] = "next" /\ proc' = "running"]_vars

\* A thread is still returning from the PROCESS Proceed of an instance that
\* another thread has already deleted.
C19_Witness ==
  \E t \in Threads :
    /\ AfterFinish(t) /\ proc = "running"
    /\ ~Live(tag[t]) /\ relCount[tag[t]] = 1

\* The request for a call of the instance at a was cancelled (or refused) by
\* the shutdown of the server: its tag is in the queue with ok = false, or
\* was obtained by a thread.
Cancelled(a) ==
  \/ \E e \in cq : e.tag = a /\ ~e.ok /\ e.kind = "PROCESS"
  \/ \E t \in Threads : tag[t] = a /\ GotNotOk(t) /\ cur[t].kind = "PROCESS"

\* C20 (as claimed): once stop is invoked no live instance is released.
C20_NoReleaseAfterStop ==
  [][serverShutdown => \A a \in Addr : Live(a) => Live(a)']_vars

\* C20 (amended): an instance is deleted only by the Proceed of its FINISH
\* event; the accepting instances at stop have their requests cancelled, and
\* an instance whose request is cancelled stays as it is, in PROCESS, for
\* ever; once an instance is constructed there is always a live one.
C20_AcceptorsAbandoned ==
  /\ [][\A a \in Addr :
         (Live(a) /\ ~Live(a)')
           => \E t \in Threads :
                /\ pc[t] = "proceed" /\ pc'[t] = "return"
                /\ tag[t] = a /\ cur[t].id = heap[a].id
                /\ cur[t].kind = "FINISH"]_vars
  /\ [][(~serverShutdown /\ serverShutdown')
         => \A r \in reg : Cancelled(r.tag)']_vars
  /\ [][\A a \in Addr :
         Cancelled(a)
           => /\ Cancelled(a)'
              /\ Live(a) /\ heap[a].status_ = "PROCESS"
              /\ heap'[a] = heap[a] /\ gen'[a] = gen[a]]_vars
  /\ []((\E a \in Addr : gen[a] > 0) => \E a \in Addr : Live(a))

\* The process has aborted after stop: an instance whose call was in flight
\* is deleted, an instance whose request was cancelled is still there.
C20_Witness ==
  /\ serverShutdown /\ proc = "aborted"
  /\ \E a \in Addr : Cancelled(a) /\ Live(a)
  /\ \E b \in Addr : Completed(b)
====
